---- MODULE Spec2Model ----
(***************************************************************************)
(* A model of the invader comparator: the comparison engine                *)
(* compareInvaders (frontend/src/App.vue, the api/compareInvaders part)    *)
(* and the search filter of the DataTable (atoms/DataTable.tsx and         *)
(* atoms/table.vue), the loading of the players by the DataTable with its  *)
(* cache, the React and the Vue DataTable run side by side on the same     *)
(* props, fetchPlayerData and fetchPlayers (api/players.ts), the uids      *)
(* router of the backend, and the App component with its filter panel,     *)
(* dropdowns, logout and messages.                                         *)
(*                                                                         *)
(* A JavaScript string is a sequence of UTF-16 code units (naturals).  A   *)
(* JavaScript value that is an array of strings, null or undefined is a    *)
(* record [tag, items].  A plain object is a record [own, proto]: its own  *)
(* enumerable properties (a function from keys to arrays) and the value    *)
(* of its prototype slot.                                                  *)
(***************************************************************************)
EXTENDS Integers, Sequences, FiniteSets, TLC

\* The engine: the caller's reference array and others mapping, their
\* values when the call was made (passed), the object returned, and
\* whether the call is still to be made ("call"), returned or threw.
VARIABLES passed, referenceInvaders, others, result, pc

cmpVars == <<passed, referenceInvaders, others, result, pc>>

\* Several invocations side by side: invocations[i] holds the arguments and
\* the locals of invocation i (refSet, result, the entries still to visit);
\* seen[a] is what the first finished invocation on the arguments a
\* returned.
VARIABLES invocations, seen

runVars == <<invocations, seen>>

\* The DataTable: the comparison it shows (rows), the search term it is
\* given (search) and the memoized value of filteredRows.
VARIABLES rows, search, filteredRows

tableVars == <<rows, search, filteredRows>>

\* The DataTable's load effect: which of the two DataTable components runs
\* (framework), its props firstFilter and secondFilters, the cache of player
\* data, columnHeaders, error and loading, the loads under way, the number
\* of gallery requests issued for each uid (fetchCount), the last
\* invocation of compareInvaders (engineCall) and the number of filter
\* changes so far (changes).
VARIABLES framework, firstFilter, secondFilters, cache, columnHeaders, error,
          loading, loads, fetchCount, engineCall, changes

loadVars == <<framework, firstFilter, secondFilters, cache, columnHeaders,
              error, loading, loads, fetchCount, engineCall, changes>>

\* One call of fetchPlayerData: the uid asked for (fetchUid), what the
\* gallery request and the decoding of its response give (answer), the
\* value the returned promise settles with (fetchResult) and whether the
\* call is still to be made, resolved or rejected (fetchPc).
VARIABLES fetchUid, answer, fetchResult, fetchPc

fetchVars == <<fetchUid, answer, fetchResult, fetchPc>>

\* The uids router of the backend: the stored myUid and othersUids of each
\* user (users), the route and the session of the last request (request)
\* and the status of the answer (response).
VARIABLES users, request, response

routerVars == <<users, request, response>>

\* One call of fetchPlayers: what the request to /api/uids gives
\* (uidsAnswer), the value the returned promise settles with (playersList)
\* and whether the call is still to be made, resolved or rejected
\* (playersPc).
VARIABLES uidsAnswer, playersList, playersPc

playersVars == <<uidsAnswer, playersList, playersPc>>

\* The App component: its states (authenticated ... messageType), whether
\* the effect of the mount has run (mounted), which dropdowns of the filter
\* panel are open (isOpen) and the number of message timers that have not
\* fired yet (timers).
VARIABLES authenticated, user, myUid, othersUids, uids, playersMap,
          selectedFirst, selectedSeconds, showSettings, message, messageType,
          mounted, isOpen, timers

sessionVars == <<authenticated, user, myUid, othersUids, showSettings>>

dataVars == <<uids, playersMap>>

selectionVars == <<selectedFirst, selectedSeconds>>

messageVars == <<message, messageType, timers>>

uiVars == <<sessionVars, dataVars, selectionVars, messageVars, mounted, isOpen>>

\* The two DataTable components side by side: the existing variables of
\* the load effect hold the React component, vueTable holds the cache,
\* rows, columnHeaders, error, loading and loads of the Vue component, and
\* gallery holds how the gallery answers the requests for each uid.
VARIABLES vueTable, gallery

pairVars == <<vueTable, gallery>>

\* The state outside the engine and the search filter.
appVars == <<loadVars, fetchVars, routerVars, playersVars, uiVars, pairVars>>

vars == <<cmpVars, runVars, tableVars, appVars>>

----------------------------------------------------------------------------
(* Bounds of the model and the sets the inputs are drawn from.             *)

\* At most MaxItems strings in all the lists of one invocation together.
MaxItems == 3

\* At most MaxNames keys in the others mapping of one invocation.
MaxNames == 2

\* " ", "A", "\tA ", "a " : a blank item, an item and the same item with
\* white space on both sides, and an item that differs from them by case
\* and carries white space at its end.
ItemPool == { <<32>>, <<65>>, <<9, 65, 32>>, <<97, 32>> }

\* Keys of the others mapping: two ordinary display names and the one key a
\* plain object treats specially on assignment.
NameSeq == << "P1", "P2", "__proto__" >>

Names == { NameSeq[i] : i \in DOMAIN NameSeq }

----------------------------------------------------------------------------
(* JavaScript values.                                                      *)

Null == [tag |-> "null", items |-> <<>>]

Undefined == [tag |-> "undefined", items |-> <<>>]

Arr(s) == [tag |-> "array", items |-> s]

\* Object.prototype, the prototype of an object literal {}.
ObjectPrototype == [tag |-> "Object.prototype", items |-> <<>>]

\* The object literal {}.
EmptyObject == [own |-> <<>>, proto |-> ObjectPrototype]

\* Object.keys(obj): the own enumerable string keys.
ObjectKeys(obj) == DOMAIN obj.own

\* obj[key] = value on a plain object.  The key "__proto__" is the accessor
\* inherited from Object.prototype: with an object (or null) as value its
\* setter replaces the prototype, and no own property is created.
SetProperty(obj, key, value) ==
    IF key = "__proto__"
    THEN [obj EXCEPT !.proto = Arr(value)]
    ELSE [obj EXCEPT !.own = [k \in (DOMAIN obj.own) \cup {key} |->
                                 IF k = key THEN value ELSE obj.own[k]]]

\* obj[key] read on a plain object: the own property, else the "__proto__"
\* getter, else undefined (neither prototype has a property named by Names).
GetProperty(obj, key) ==
    IF key \in DOMAIN obj.own THEN Arr(obj.own[key])
    ELSE IF key = "__proto__" THEN obj.proto
    ELSE Undefined

----------------------------------------------------------------------------
(* The parts of the state a specification leaves alone keep the value      *)
(* they have before anything is mounted or called.                         *)

\* No DataTable is mounted.
LoadIdle ==
    /\ framework = "none"
    /\ firstFilter = ""
    /\ secondFilters = <<>>
    /\ cache = <<>>
    /\ columnHeaders = <<>>
    /\ error = ""
    /\ loading = FALSE
    /\ loads = <<>>
    /\ fetchCount = <<>>
    /\ engineCall = <<>>
    /\ changes = 0

\* fetchPlayerData is not called.
FetchIdle ==
    /\ fetchUid = <<>>
    /\ answer = [kind |-> "none"]
    /\ fetchResult = [player |-> <<>>, invaders |-> <<>>]
    /\ fetchPc = "idle"

\* The router has served no request.
RouterIdle ==
    /\ users = <<>>
    /\ request = [route |-> "none", session |-> "none"]
    /\ response = [status |-> 0]

\* fetchPlayers is not called.
PlayersIdle ==
    /\ uidsAnswer = [kind |-> "none"]
    /\ playersList = <<>>
    /\ playersPc = "idle"

\* The App component as it is constructed, before its mount.
UiIdle ==
    /\ authenticated = FALSE
    /\ user = "null"
    /\ myUid = <<>>
    /\ othersUids = <<>>
    /\ uids = <<>>
    /\ playersMap = <<>>
    /\ selectedFirst = <<>>
    /\ selectedSeconds = <<>>
    /\ showSettings = FALSE
    /\ message = ""
    /\ messageType = "success"
    /\ mounted = FALSE
    /\ isOpen = [first |-> FALSE, second |-> FALSE]
    /\ timers = 0

\* No pair of DataTable components is run.
PairIdle ==
    /\ vueTable = <<>>
    /\ gallery = <<>>

AppIdle ==
    LoadIdle /\ FetchIdle /\ RouterIdle /\ PlayersIdle /\ UiIdle /\ PairIdle

\* No call of the engine is under way and no table is shown.
EngineIdle ==
    /\ invocations = <<>>
    /\ seen = <<>>
    /\ pc = "idle"
    /\ result = EmptyObject
    /\ referenceInvaders = <<>>
    /\ others = <<>>
    /\ passed = [reference |-> <<>>, others |-> <<>>]

TableIdle ==
    /\ rows = EmptyObject
    /\ search = <<>>
    /\ filteredRows = EmptyObject

----------------------------------------------------------------------------
(* Strings.                                                                *)

\* The code units String.prototype.trim strips (WhiteSpace and
\* LineTerminator) among the units below 256.
WhiteSpaceUnits == { 9, 10, 11, 12, 13, 32, 160 }

RECURSIVE TrimStart(_)
TrimStart(s) ==
    IF s # <<>> /\ Head(s) \in WhiteSpaceUnits THEN TrimStart(Tail(s)) ELSE s

RECURSIVE TrimEnd(_)
TrimEnd(s) ==
    IF s # <<>> /\ s[Len(s)] \in WhiteSpaceUnits
    THEN TrimEnd(SubSeq(s, 1, Len(s) - 1))
    ELSE s

\* s.trim()
trim(s) == TrimEnd(TrimStart(s))

\* a < b on strings: the first differing code unit decides, a proper prefix
\* comes first.
StrLess(a, b) ==
    \E i \in 1..Len(b) :
        /\ i - 1 <= Len(a)
        /\ \A j \in 1..(i - 1) : a[j] = b[j]
        /\ \/ i = Len(a) + 1
           \/ a[i] < b[i]

StrLeq(a, b) == a = b \/ StrLess(a, b)

----------------------------------------------------------------------------
(* Arrays and Sets of strings.                                             *)

\* a.map(s => s.trim()): a new array, the receiver is left as it is.
MapTrim(a) == [i \in 1..Len(a) |-> trim(a[i])]

\* set.has(x): SameValueZero, on strings equality of the code units.
SetHas(set, x) == \E i \in 1..Len(set) : set[i] = x

\* new Set(a): the elements of a in the order of their first insertion, a
\* later equal element adds nothing.
RECURSIVE SetFrom(_, _)
SetFrom(a, set) ==
    IF a = <<>> THEN set
    ELSE SetFrom(Tail(a), IF SetHas(set, Head(a)) THEN set
                          ELSE Append(set, Head(a)))

NewSet(a) == SetFrom(a, <<>>)

\* [...set]: a new array holding the elements in insertion order.
Spread(set) == set

\* The place of x in the sorted array a: after every element that is not
\* greater than x.
RECURSIVE InsertSorted(_, _)
InsertSorted(x, a) ==
    IF a = <<>> THEN <<x>>
    ELSE IF StrLess(x, Head(a)) THEN <<x>> \o a
    ELSE <<Head(a)>> \o InsertSorted(x, Tail(a))

RECURSIVE SortFrom(_, _)
SortFrom(a, sorted) ==
    IF a = <<>> THEN sorted
    ELSE SortFrom(Tail(a), InsertSorted(Head(a), sorted))

\* a.sort() with no compare function: ascending by code units, in place;
\* the value returned is the receiver.
ArraySort(a) == SortFrom(a, <<>>)

----------------------------------------------------------------------------
(* compareInvaders.                                                        *)

\* The reference set built without trimming: new Set(referenceInvaders).
RefSetUntrimmed(refList) == NewSet(refList)

\* The set of the trimmed reference items.
RefSet(refList) == NewSet(MapTrim(refList))

\* The default left out: invList.map(...) on the value as it is.
NoDefault(invList) == invList

\* invList || [] : null and undefined are falsy, every array is truthy.
OrEmpty(invList) == IF invList.tag = "array" THEN invList ELSE Arr(<<>>)

\* The items of a player put in the set as they are, trim left out.
MapOfUntrimmed(v) ==
    IF v.tag = "array"
    THEN [threw |-> FALSE, value |-> v.items]
    ELSE [threw |-> TRUE, value |-> <<>>]

\* .map(...) on the value of (invList || []): a TypeError when the value is
\* not an array.
MapTrimOf(v) ==
    IF v.tag = "array"
    THEN [threw |-> FALSE, value |-> MapTrim(v.items)]
    ELSE [threw |-> TRUE, value |-> <<>>]

\* The trimmed items kept as an array, duplicates and all.
InvSetWithDuplicates(trimmed) == trimmed

\* The set of the trimmed items of one player.
InvSet(trimmed) == NewSet(trimmed)

\* [...invSet].filter(inv => !refSet.has(inv))
Diff(invSet, refSet) ==
    SelectSeq(Spread(invSet), LAMBDA inv : ~SetHas(refSet, inv))

\* The difference stored without sorting.
Unsorted(diff) == diff

\* What result[playerName] is assigned: the array sort() returns.
Sorted(diff) == ArraySort(diff)

\* sort() called on the array of the player: invList.sort() reorders the
\* caller's array.
SortedInPlace(invList, diff) == ArraySort(invList)

\* The array that sort() reorders in place is diff, the array filter made:
\* the array held by others[playerName] is the one it was before the call.
InvListAfter(invList, diff) == invList

\* The reference array is only read (map copies).
ReferenceAfter(refList) == refList

\* The loop body with a guard that skips a missing list:
\* if (!invList) continue.
LoopBodySkippingMissing(res, refSet, playerName, invList) ==
    IF invList.tag # "array"
    THEN [threw |-> FALSE, result |-> res, invList |-> invList]
    ELSE [threw |-> FALSE,
          result |-> SetProperty(res, playerName,
                        ArraySort(SelectSeq(NewSet(MapTrim(invList.items)),
                                            LAMBDA inv : ~SetHas(refSet, inv)))),
          invList |-> invList]

\* The body of the loop for one entry [playerName, invList].
LoopBody(res, refSet, playerName, invList) ==
    LET mapped == MapTrimOf(OrEmpty(invList))
        diff   == Diff(InvSet(mapped.value), refSet)
    IN  IF mapped.threw
        THEN [threw |-> TRUE, result |-> res, invList |-> invList]
        ELSE [threw |-> FALSE,
              result |-> SetProperty(res, playerName, Sorted(diff)),
              invList |-> IF invList.tag = "array"
                          THEN Arr(InvListAfter(invList.items, diff))
                          ELSE invList]

\* The loop over Object.entries(oth), taken in the order of keys; st is
\* [threw, result, others]: the loop stops at the first throw.
RECURSIVE Loop(_, _, _)
Loop(st, refSet, keys) ==
    IF keys = <<>> \/ st.threw THEN st
    ELSE LET name == Head(keys)
             body == LoopBody(st.result, refSet, name, st.others[name])
         IN  Loop([threw  |-> body.threw,
                   result |-> body.result,
                   others |-> [st.others EXCEPT ![name] = body.invList]],
                  refSet, Tail(keys))

\* compareInvaders(refList, oth), with keys the order in which
\* Object.entries lists the keys of oth.  The value is [threw, result,
\* others]: whether it threw, the object returned, and the others mapping
\* as the call leaves it.
compareInvaders(refList, oth, keys) ==
    Loop([threw |-> FALSE, result |-> EmptyObject, others |-> oth],
         RefSet(refList), keys)

\* The orders in which the keys of a mapping can be listed.
KeyOrders(oth) ==
    { q \in [1..Cardinality(DOMAIN oth) -> DOMAIN oth] :
        \A i, j \in DOMAIN q : i # j => q[i] # q[j] }

----------------------------------------------------------------------------
(* The engine alone: one invocation on arguments drawn from the bounded    *)
(* sets.                                                                   *)

\* What a name can have in the mapping: no entry, or an entry that is an
\* array, null or undefined.
EntryKinds == { "absent", "array", "null", "undefined" }

\* The longest list an entry of that kind can hold within the budget.
MaxLen(kind, budget) == IF kind = "array" THEN budget ELSE 0

\* The mapping with the entries es[i] under the names NameSeq[i], the
\* absent ones left out.
MappingOf(es) ==
    [name \in { NameSeq[i] : i \in { j \in DOMAIN es : es[j].tag # "absent" } } |->
        LET i == CHOOSE j \in DOMAIN es : NameSeq[j] = name
        IN  es[i]]

\* Before the call: the caller holds a reference list and a mapping of at
\* most MaxNames names, with at most MaxItems items in all.
InitCompare ==
    /\ AppIdle
    /\ invocations = <<>>
    /\ seen = <<>>
    /\ rows = EmptyObject
    /\ search = <<>>
    /\ filteredRows = EmptyObject
    /\ pc = "call"
    /\ result = EmptyObject
    /\ \E k0 \in 0..MaxItems : \E r \in [1..k0 -> ItemPool] :
       \E t1 \in EntryKinds : \E k1 \in 0..MaxLen(t1, MaxItems - k0) :
       \E s1 \in [1..k1 -> ItemPool] :
       \E t2 \in EntryKinds : \E k2 \in 0..MaxLen(t2, MaxItems - k0 - k1) :
       \E s2 \in [1..k2 -> ItemPool] :
       \E t3 \in EntryKinds : \E k3 \in 0..MaxLen(t3, MaxItems - k0 - k1 - k2) :
       \E s3 \in [1..k3 -> ItemPool] :
          /\ Cardinality({ i \in 1..3 : <<t1, t2, t3>>[i] # "absent" }) <= MaxNames
          /\ referenceInvaders = r
          /\ others = MappingOf(<<[tag |-> t1, items |-> s1],
                                  [tag |-> t2, items |-> s2],
                                  [tag |-> t3, items |-> s3]>>)
          /\ passed = [reference |-> r, others |-> others]

\* The call compareInvaders(referenceInvaders, others): it returns an
\* object or throws.
Compare ==
    /\ pc = "call"
    /\ \E keys \in KeyOrders(others) :
          LET out == compareInvaders(referenceInvaders, others, keys)
          IN  /\ pc' = IF out.threw THEN "threw" ELSE "returned"
              /\ result' = out.result
              /\ others' = out.others
              /\ referenceInvaders' = ReferenceAfter(referenceInvaders)
    /\ UNCHANGED <<passed, runVars, tableVars, appVars>>

NextCompare == Compare

SpecCompare == InitCompare /\ [][NextCompare]_vars

----------------------------------------------------------------------------
(* Invocations side by side.  Each invocation runs the code of             *)
(* compareInvaders on its own arguments and its own locals; a step is the  *)
(* prologue of the function, one turn of its loop, or its return, and the  *)
(* steps of different invocations interleave freely.                       *)

\* How many invocations can be under way at once.
MaxParallel == 2

Slots == 1..MaxParallel

\* The arguments the invocations are made on:
\* (["A"], {P1: ["a ", "\tA "], P2: [" "]}) and ([" "], {P2: ["A", " "]}).
ArgPool ==
    { [reference |-> << <<65>> >>,
       others |-> MappingOf(<< Arr(<< <<97, 32>>, <<9, 65, 32>> >>),
                               Arr(<< <<32>> >>),
                               [tag |-> "absent", items |-> <<>>] >>)],
      [reference |-> << <<32>> >>,
       others |-> MappingOf(<< [tag |-> "absent", items |-> <<>>],
                               Arr(<< <<65>>, <<32>> >>),
                               [tag |-> "absent", items |-> <<>>] >>)] }

\* An invocation slot that has not been used yet.
Idle ==
    [pc |-> "idle", args |-> [reference |-> <<>>, others |-> <<>>],
     order |-> <<>>, keys |-> <<>>, refSet |-> <<>>, result |-> EmptyObject,
     overlapped |-> FALSE]

\* The result object kept from one invocation to the next (a module-level
\* object in place of the local one).
KeptResult(earlier) == earlier

\* The object a new invocation binds result to: the literal {} of line 373,
\* whatever an earlier invocation left.
NewResult(earlier) == EmptyObject

InitRun ==
    /\ AppIdle
    /\ invocations = [i \in Slots |-> Idle]
    /\ seen = <<>>
    /\ rows = EmptyObject
    /\ search = <<>>
    /\ filteredRows = EmptyObject
    /\ pc = "idle"
    /\ result = EmptyObject
    /\ referenceInvaders = <<>>
    /\ others = <<>>
    /\ passed = [reference |-> <<>>, others |-> <<>>]

\* The invocations other than i that are in their loop have now seen a
\* step of another invocation.
Overlap(invs, i) ==
    [j \in Slots |->
        IF j # i /\ invs[j].pc = "loop"
        THEN [invs[j] EXCEPT !.overlapped = TRUE]
        ELSE invs[j]]

\* Invocation i starts on the arguments a, Object.entries listing the keys
\* in the order given: result = {}, refSet = new Set(...).
Begin(i, a, order) ==
    /\ invocations[i].pc # "loop"
    /\ invocations' =
          Overlap([invocations EXCEPT ![i] =
                      [pc |-> "loop", args |-> a, order |-> order,
                       keys |-> order, refSet |-> RefSet(a.reference),
                       result |-> NewResult(invocations[i].result),
                       overlapped |-> FALSE]], i)
    /\ UNCHANGED <<seen, cmpVars, tableVars, appVars>>

\* One turn of the loop of invocation i.
Turn(i) ==
    LET me   == invocations[i]
        name == Head(me.keys)
        body == LoopBody(me.result, me.refSet, name, me.args.others[name])
    IN  /\ me.pc = "loop"
        /\ me.keys # <<>>
        /\ invocations' =
              Overlap([invocations EXCEPT ![i] =
                          [me EXCEPT !.pc = IF body.threw THEN "threw" ELSE "loop",
                                     !.keys = Tail(me.keys),
                                     !.result = body.result]], i)
        /\ UNCHANGED <<seen, cmpVars, tableVars, appVars>>

\* Invocation i returns result.
Return(i) ==
    LET me == invocations[i]
    IN  /\ me.pc = "loop"
        /\ me.keys = <<>>
        /\ invocations' =
              Overlap([invocations EXCEPT ![i] = [me EXCEPT !.pc = "returned"]], i)
        /\ seen' = IF me.args \in DOMAIN seen THEN seen
                   ELSE [a \in (DOMAIN seen) \cup {me.args} |->
                            IF a = me.args
                            THEN me.result
                            ELSE seen[a]]
        /\ UNCHANGED <<cmpVars, tableVars, appVars>>

NextRun ==
    \E i \in Slots :
        \/ \E a \in ArgPool : \E order \in KeyOrders(a.others) : Begin(i, a, order)
        \/ Turn(i)
        \/ Return(i)

SpecRun == InitRun /\ [][NextRun]_vars

----------------------------------------------------------------------------
(* The search filter of the DataTable.                                     *)

\* At most MaxRowItems items in the list of a player the rows are computed
\* from.
MaxRowItems == 2

\* "A", "ab", "Ba", "b": items that match a term only when case is ignored,
\* at their start, at their end, or not at all.
RowItemPool == { <<65>>, <<97, 98>>, <<66, 97>>, <<98>> }

\* "", "a", "A", "B", "AB", "ba", " ": the terms typed in the search bar.
SearchPool == { <<>>, <<97>>, <<65>>, <<66>>, <<65, 66>>, <<98, 97>>, <<32>> }

\* s.toLowerCase(), for strings of code units below 128.
toLowerCase(s) ==
    [i \in DOMAIN s |-> IF s[i] \in 65..90 THEN s[i] + 32 ELSE s[i]]

\* s.includes(sub): sub occurs in s at position k or later.
RECURSIVE IncludesFrom(_, _, _)
IncludesFrom(s, sub, k) ==
    IF k + Len(sub) - 1 > Len(s) THEN FALSE
    ELSE IF SubSeq(s, k, k + Len(sub) - 1) = sub THEN TRUE
    ELSE IncludesFrom(s, sub, k + 1)

includes(s, sub) == IncludesFrom(s, sub, 1)

\* The test of the filter with the item compared as it is.
MatchesCaseSensitive(inv, searchLower) == includes(inv, searchLower)

\* inv => inv.toLowerCase().includes(searchLower)
Matches(inv, searchLower) == includes(toLowerCase(inv), searchLower)

\* The loop over Object.entries(rows), in the order of keys:
\* filtered[playerName] = (invaders || []).filter(...).
RECURSIVE FilterLoop(_, _, _, _)
FilterLoop(filtered, rws, searchLower, keys) ==
    IF keys = <<>> THEN filtered
    ELSE FilterLoop(
            SetProperty(filtered, Head(keys),
                        SelectSeq(rws.own[Head(keys)],
                                  LAMBDA inv : Matches(inv, searchLower))),
            rws, searchLower, Tail(keys))

\* The value of filteredRows for rows and a search term: rows itself when
\* the term is empty (falsy), else the filtered copy.
FilterRows(rws, term, keys) ==
    IF term = <<>> THEN rws
    ELSE FilterLoop(EmptyObject, rws, toLowerCase(term), keys)

InitTable ==
    /\ AppIdle
    /\ rows = EmptyObject
    /\ search = <<>>
    /\ filteredRows = EmptyObject
    /\ invocations = <<>>
    /\ seen = <<>>
    /\ pc = "idle"
    /\ result = EmptyObject
    /\ referenceInvaders = <<>>
    /\ others = <<>>
    /\ passed = [reference |-> <<>>, others |-> <<>>]

\* setRows(comparisonResult): the rows become the result of comparing two
\* players with a reference player whose list is [] or ["b"], the second
\* player holding [] or ["Ba"], and filteredRows is computed again.
SetRows ==
    \E r \in { <<>>, << <<98>> >> }, k1 \in 0..MaxRowItems,
       s2 \in { <<>>, << <<66, 97>> >> } :
    \E s1 \in [1..k1 -> RowItemPool] :
       LET oth == MappingOf(<< Arr(s1), Arr(s2),
                               [tag |-> "absent", items |-> <<>>] >>)
           out == compareInvaders(r, oth, << "P1", "P2" >>)
       IN  /\ rows' = out.result
           /\ \E keys \in KeyOrders(rows'.own) :
                 filteredRows' = FilterRows(rows', search, keys)
           /\ UNCHANGED <<search, cmpVars, runVars, appVars>>

\* The search prop changes: filteredRows is computed again.
SetSearch ==
    \E term \in SearchPool :
        /\ search' = term
        /\ \E keys \in KeyOrders(rows.own) :
              filteredRows' = FilterRows(rows, term, keys)
        /\ UNCHANGED <<rows, cmpVars, runVars, appVars>>

NextTable == SetRows \/ SetSearch

SpecTable == InitTable /\ [][NextTable]_vars

----------------------------------------------------------------------------
(* The DataTable's load effect (atoms/DataTable.tsx, atoms/table.vue): the *)
(* props change, the effect resets the table and loads the players that    *)
(* are not cached, the gallery answers in any order, and the load ends by  *)
(* comparing and showing the rows.  What runs between two awaited gallery  *)
(* answers is one step.                                                    *)

\* At most MaxChanges changes of firstFilter and secondFilters.
MaxChanges == 3

UidSeq == << "A", "B", "C" >>

Uids == { UidSeq[i] : i \in DOMAIN UidSeq }

\* "" and "B": the search terms given to the DataTable.
SearchTerms == { <<>>, <<66>> }

\* What fetchPlayerData resolves to for a uid when the gallery answers: A
\* is "P1" with ["b", "Ba"], B is "P2" with ["ab", "Ba", "A"], and C goes by
\* the name "P2" too, with ["A", "b"].
Gallery(uid) ==
    CASE uid = "A" -> [player |-> "P1", invaders |-> << <<98>>, <<66, 97>> >>]
      [] uid = "B" -> [player |-> "P2",
                       invaders |-> << <<97, 98>>, <<66, 97>>, <<65>> >>]
      [] OTHER     -> [player |-> "P2", invaders |-> << <<65>>, <<98>> >>]

\* { player: uid, invaders: [] }
Fallback(uid) == [player |-> uid, invaders |-> <<>>]

FetchOutcomes == { "ok", "failed" }

\* What the awaited fetchPlayerData(uid) hands to ensurePlayer.
PlayerDataOf(uid, outcome) ==
    IF outcome = "ok" THEN Gallery(uid) ELSE Fallback(uid)

\* cache[uid] is truthy: the cache has an entry for uid.
Cached(view, uid) == uid \in DOMAIN view

\* { ...prevCache, [uid]: data } and cache.value[uid] = data
StoreInCache(c, uid, data) ==
    [u \in (DOMAIN c) \cup {uid} |-> IF u = uid THEN data ELSE c[u]]

\* The message of the error thrown when the reference player has no entry.
NoReferenceData == "Impossible de recuperer les donnees du joueur principal"

\* The dependencies of the effect with the search term among them.
EffectDepsWithSearch(p) == <<p.firstFilter, p.array, p.search>>

\* The dependencies of the effect, [firstFilter, secondFilters], and the
\* source of the watch: the array secondFilters counts by its identity
\* (array), not by what it holds.
EffectDeps(p) == <<p.firstFilter, p.array>>

\* The props the DataTable is rendered with; every change of the filters
\* makes a new array of second filters.
Props(first, seconds, array, term) ==
    [firstFilter |-> first, secondFilters |-> seconds, array |-> array,
     search |-> term]

\* The uids a load ensures, in the groups it awaits together: React awaits
\* the reference player and then all the others at once (Promise.all), Vue
\* awaits them one after the other.
Groups(fw, first, seconds) ==
    IF fw = "react"
    THEN << <<first>>, seconds >>
    ELSE << <<first>> >> \o [i \in 1..Len(seconds) |-> << seconds[i] >>]

\* The cache a load reads: in React the value of the state variable cache
\* in the render that created the effect, in Vue the reactive cache itself.
View(fw, ld, c) == IF fw = "react" THEN ld.closure ELSE c

\* A load that awaits nothing goes on through its groups: a group whose
\* uids are all cached is passed, the first group with a uid that is not
\* cached is awaited (waiting holds the uids requested from the gallery).
RECURSIVE Resume(_, _)
Resume(ld, view) ==
    IF ld.todo = <<>> THEN ld
    ELSE LET group == Head(ld.todo)
             need  == { group[i] : i \in { j \in DOMAIN group :
                                             /\ group[j] # ""
                                             /\ ~Cached(view, group[j]) } }
         IN  IF need = {}
             THEN Resume([ld EXCEPT !.todo = Tail(ld.todo)], view)
             ELSE [ld EXCEPT !.todo = Tail(ld.todo), !.waiting = need]

\* The others mapping built from the entries of the second filters, with
\* the order in which its keys were created: a uid without an entry is
\* skipped, a player name used twice keeps its place and takes the later
\* list.
RECURSIVE OthersFrom(_, _, _)
OthersFrom(seconds, view, acc) ==
    IF seconds = <<>> THEN acc
    ELSE LET uid == Head(seconds)
         IN  IF ~Cached(view, uid)
             THEN OthersFrom(Tail(seconds), view, acc)
             ELSE LET playerData == view[uid]
                      playerName == IF playerData.player # ""
                                    THEN playerData.player ELSE uid
                  IN  OthersFrom(Tail(seconds), view,
                         [keys |-> IF \E i \in DOMAIN acc.keys :
                                         acc.keys[i] = playerName
                                   THEN acc.keys
                                   ELSE Append(acc.keys, playerName),
                          map  |-> [n \in (DOMAIN acc.map) \cup {playerName} |->
                                       IF n = playerName
                                       THEN Arr(playerData.invaders)
                                       ELSE acc.map[n]]])

\* The end of a load, after the last await: what it sets rows,
\* columnHeaders and error to, and the invocation of compareInvaders it
\* makes (<<>> when it makes none).
Outcome(fw, ld, c) ==
    LET view == View(fw, ld, c)
    IN  IF ~Cached(view, ld.first)
        THEN [rows |-> EmptyObject, columnHeaders |-> <<>>,
              error |-> NoReferenceData, call |-> <<>>]
        ELSE LET oth == OthersFrom(ld.seconds, view,
                                   [keys |-> <<>>, map |-> <<>>])
                 out == compareInvaders(view[ld.first].invaders, oth.map,
                                        oth.keys)
                 call == [first |-> ld.first, seconds |-> ld.seconds,
                          resolved |-> DOMAIN c,
                          held |-> { u \in Uids :
                                       /\ \E i \in DOMAIN ld.seconds :
                                             ld.seconds[i] = u
                                       /\ Cached(view, u) }]
             IN  IF out.threw
                 THEN [rows |-> EmptyObject, columnHeaders |-> <<>>,
                       error |-> "Erreur", call |-> call]
                 ELSE [rows |-> out.result, columnHeaders |-> oth.keys,
                       error |-> "", call |-> call]

\* The load ld, awaiting nothing, goes on with the cache c next to the
\* loads rest: it requests what its next group lacks, or ends.  Until it
\* ends the table shows rows0, headers0, error0 and loading0.
GoOn(ld, c, rest, rows0, headers0, error0, loading0) ==
    LET r   == Resume(ld, View(framework, ld, c))
        end == Outcome(framework, r, c)
    IN  /\ fetchCount' = [u \in Uids |->
                             fetchCount[u] + IF u \in r.waiting THEN 1 ELSE 0]
        /\ IF r.waiting # {}
           THEN /\ loads' = Append(rest, r)
                /\ rows' = rows0
                /\ columnHeaders' = headers0
                /\ error' = error0
                /\ loading' = loading0
                /\ UNCHANGED engineCall
           ELSE /\ loads' = rest
                /\ rows' = end.rows
                /\ columnHeaders' = end.columnHeaders
                /\ error' = end.error
                /\ loading' = FALSE
                /\ engineCall' = IF end.call = <<>> THEN engineCall
                                 ELSE end.call

\* The body of the effect (the callback of the watch) for the filters
\* first and seconds.
Effect(first, seconds) ==
    IF first = "" \/ seconds = <<>>
    THEN /\ rows' = EmptyObject
         /\ columnHeaders' = <<>>
         /\ error' = ""
         /\ UNCHANGED <<loading, loads, fetchCount, engineCall>>
    ELSE GoOn([first |-> first, seconds |-> seconds,
               closure |-> IF framework = "react" THEN cache ELSE <<>>,
               todo |-> Groups(framework, first, seconds),
               waiting |-> {}],
              cache, loads, EmptyObject, <<>>, "", TRUE)

\* The DataTable is rendered with new props: the effect runs when its
\* dependencies changed, and filteredRows is computed from the rows and
\* the search term of the render.
Render(old, new) ==
    /\ firstFilter' = new.firstFilter
    /\ secondFilters' = new.secondFilters
    /\ search' = new.search
    /\ changes' = new.array
    /\ IF EffectDeps(old) # EffectDeps(new)
       THEN Effect(new.firstFilter, new.secondFilters)
       ELSE UNCHANGED <<rows, columnHeaders, error, loading, loads,
                        fetchCount, engineCall>>
    /\ filteredRows' = FilterRows(rows', search', columnHeaders')
    /\ UNCHANGED <<framework, cache, cmpVars, runVars, fetchVars, routerVars,
                   playersVars, uiVars>>

CurrentProps == Props(firstFilter, secondFilters, changes, search)

InitLoad ==
    /\ EngineIdle
    /\ TableIdle
    /\ FetchIdle
    /\ RouterIdle
    /\ PlayersIdle
    /\ UiIdle
    /\ PairIdle
    /\ framework \in { "react", "vue" }
    /\ firstFilter = ""
    /\ secondFilters = <<>>
    /\ cache = <<>>
    /\ columnHeaders = <<>>
    /\ error = ""
    /\ loading = FALSE
    /\ loads = <<>>
    /\ fetchCount = [u \in Uids |-> 0]
    /\ engineCall = <<>>
    /\ changes = 0

\* The reference player is chosen: the filter panel sets the first filter
\* and empties the second filters.
SelectFirst(uid) ==
    /\ changes < MaxChanges
    /\ Render(CurrentProps, Props(uid, <<>>, changes + 1, search))
    /\ UNCHANGED pairVars

\* A player is added to the second filters, or taken out of them.
ToggleSecond(uid) ==
    /\ changes < MaxChanges
    /\ firstFilter # ""
    /\ uid # firstFilter
    /\ Render(CurrentProps,
              Props(firstFilter,
                    IF \E i \in DOMAIN secondFilters : secondFilters[i] = uid
                    THEN SelectSeq(secondFilters, LAMBDA u : u # uid)
                    ELSE Append(secondFilters, uid),
                    changes + 1, search))
    /\ UNCHANGED pairVars

\* The search term changes.
ChangeSearch(term) ==
    /\ term # search
    /\ Render(CurrentProps, Props(firstFilter, secondFilters, changes, term))
    /\ UNCHANGED pairVars

\* The gallery request of load i for uid ends: ensurePlayer stores the
\* player's data, or the fallback, and the load goes on.
FetchReturns(i, uid, outcome) ==
    /\ i \in DOMAIN loads
    /\ uid \in loads[i].waiting
    /\ LET c    == StoreInCache(cache, uid, PlayerDataOf(uid, outcome))
           ld   == [loads[i] EXCEPT !.waiting = @ \ {uid}]
           rest == [j \in 1..(Len(loads) - 1) |->
                       IF j < i THEN loads[j] ELSE loads[j + 1]]
       IN  /\ cache' = c
           /\ IF ld.waiting # {}
              THEN /\ loads' = [loads EXCEPT ![i] = ld]
                   /\ UNCHANGED <<rows, columnHeaders, error, loading,
                                  fetchCount, engineCall>>
              ELSE GoOn(ld, c, rest, rows, columnHeaders, error, loading)
    /\ filteredRows' = FilterRows(rows', search, columnHeaders')
    /\ UNCHANGED <<framework, firstFilter, secondFilters, changes, search,
                   cmpVars, runVars, fetchVars, routerVars, playersVars,
                   uiVars,
                   pairVars>>

NextLoad ==
    \/ \E uid \in Uids : SelectFirst(uid)
    \/ \E uid \in Uids : ToggleSecond(uid)
    \/ \E term \in SearchTerms : ChangeSearch(term)
    \/ \E i \in 1..MaxChanges, uid \in Uids, outcome \in FetchOutcomes :
          FetchReturns(i, uid, outcome)

SpecLoad == InitLoad /\ [][NextLoad]_vars

----------------------------------------------------------------------------
(* The two DataTable components given the same props and the same gallery: *)
(* the React component runs on the variables of the load effect, the Vue   *)
(* component on the record vueTable.  Every change of the filters reaches  *)
(* both; each component's gallery requests are answered at their own       *)
(* times, and a request for a uid ends as gallery says for that uid.       *)

\* A DataTable as it is constructed.
NewTable ==
    [cache |-> <<>>, rows |-> EmptyObject, columnHeaders |-> <<>>,
     error |-> "", loading |-> FALSE, loads |-> <<>>]

\* The load ld of a table goes on with the cache c next to the loads rest:
\* it awaits what its next group lacks, or ends.  Until it ends the table
\* is as shown.
TableGoOn(fw, ld, c, rest, shown) ==
    LET r   == Resume(ld, View(fw, ld, c))
        end == Outcome(fw, r, c)
    IN  IF r.waiting # {}
        THEN [shown EXCEPT !.cache = c, !.loads = Append(rest, r)]
        ELSE [cache |-> c, rows |-> end.rows,
              columnHeaders |-> end.columnHeaders, error |-> end.error,
              loading |-> FALSE, loads |-> rest]

\* The callback of the watch (the body of the effect) on the table t for
\* the filters first and seconds.
TableEffect(fw, t, first, seconds) ==
    LET reset == [t EXCEPT !.rows = EmptyObject, !.columnHeaders = <<>>,
                           !.error = ""]
    IN  IF first = "" \/ seconds = <<>>
        THEN reset
        ELSE TableGoOn(fw,
                       [first |-> first, seconds |-> seconds,
                        closure |-> IF fw = "react" THEN t.cache ELSE <<>>,
                        todo |-> Groups(fw, first, seconds),
                        waiting |-> {}],
                       t.cache, t.loads, [reset EXCEPT !.loading = TRUE])

\* The gallery request of load i of the table t for uid ends: ensurePlayer
\* stores the player's data, or the fallback, and the load goes on.
TableFetchReturns(fw, t, i, uid, outcome) ==
    LET c    == StoreInCache(t.cache, uid, PlayerDataOf(uid, outcome))
        ld   == [t.loads[i] EXCEPT !.waiting = @ \ {uid}]
        rest == [j \in 1..(Len(t.loads) - 1) |->
                    IF j < i THEN t.loads[j] ELSE t.loads[j + 1]]
    IN  IF ld.waiting # {}
        THEN [t EXCEPT !.cache = c, !.loads[i] = ld]
        ELSE TableGoOn(fw, ld, c, rest, t)

\* Both components are constructed, with empty caches; the gallery answers
\* or fails for each uid.
InitPair ==
    /\ EngineIdle
    /\ TableIdle
    /\ FetchIdle
    /\ RouterIdle
    /\ PlayersIdle
    /\ UiIdle
    /\ framework = "react"
    /\ firstFilter = ""
    /\ secondFilters = <<>>
    /\ cache = <<>>
    /\ columnHeaders = <<>>
    /\ error = ""
    /\ loading = FALSE
    /\ loads = <<>>
    /\ fetchCount = [u \in Uids |-> 0]
    /\ engineCall = <<>>
    /\ changes = 0
    /\ vueTable = NewTable
    /\ gallery \in [Uids -> FetchOutcomes]

\* The reference player is chosen, for both components.
PairSelectFirst(uid) ==
    /\ changes < MaxChanges
    /\ Render(CurrentProps, Props(uid, <<>>, changes + 1, search))
    /\ vueTable' = TableEffect("vue", vueTable, uid, <<>>)
    /\ UNCHANGED gallery

\* A player is added to the second filters, or taken out of them, for both
\* components.
PairToggleSecond(uid) ==
    /\ changes < MaxChanges
    /\ firstFilter # ""
    /\ uid # firstFilter
    /\ LET seconds == IF \E i \in DOMAIN secondFilters : secondFilters[i] = uid
                      THEN SelectSeq(secondFilters, LAMBDA u : u # uid)
                      ELSE Append(secondFilters, uid)
       IN  /\ Render(CurrentProps,
                     Props(firstFilter, seconds, changes + 1, search))
           /\ vueTable' = TableEffect("vue", vueTable, firstFilter, seconds)
    /\ UNCHANGED gallery

\* A gallery request of the React component ends.
ReactFetchReturns(i, uid) ==
    /\ framework = "react"
    /\ FetchReturns(i, uid, gallery[uid])

\* A gallery request of the Vue component ends.
VueFetchReturns(i, uid) ==
    /\ i \in DOMAIN vueTable.loads
    /\ uid \in vueTable.loads[i].waiting
    /\ vueTable' = TableFetchReturns("vue", vueTable, i, uid, gallery[uid])
    /\ UNCHANGED <<gallery, cmpVars, runVars, tableVars, loadVars, fetchVars,
                   routerVars, playersVars, uiVars>>

NextPair ==
    \/ \E uid \in Uids : PairSelectFirst(uid)
    \/ \E uid \in Uids : PairToggleSecond(uid)
    \/ \E i \in 1..MaxChanges, uid \in Uids : ReactFetchReturns(i, uid)
    \/ \E i \in 1..MaxChanges, uid \in Uids : VueFetchReturns(i, uid)

SpecPair == InitPair /\ [][NextPair]_vars

----------------------------------------------------------------------------
(* fetchPlayerData (api/spaceInvaders.ts): one gallery request for a uid.  *)
(* Here a uid and a player name are strings of code units like the names   *)
(* of the invaders; a string read from the decoded response is a record    *)
(* [tag, items] and a missing one is Undefined.                            *)

\* At most MaxInvaders invaders in the response of the gallery.
MaxInvaders == 3

Str(s) == [tag |-> "string", items |-> s]

\* "u1" and " u": the uids asked for.
FetchUidPool == { <<117, 49>>, <<32, 117>> }

\* data.player.name: missing, "", " Al" or "A".
PlayerNamePool == { Undefined, Str(<<>>), Str(<<32, 65, 108>>), Str(<<65>>) }

\* The name of an entry of data.invaders: missing, or an item of ItemPool.
InvaderNamePool == { Undefined } \cup { Str(s) : s \in ItemPool }

\* data?.player?.name || uid
PlayerOf(data, uid) ==
    IF data.tag = "object" /\ data.name.tag = "string" /\ data.name.items # <<>>
    THEN data.name.items
    ELSE uid

\* Object.values(data?.invaders || {}).map(inv => (inv?.name ?? '')): the
\* names in the order of the entries, '' for a missing one.
RawNames(data) ==
    IF data.tag = "object"
    THEN [i \in DOMAIN data.invaders |->
             IF data.invaders[i].tag = "string"
             THEN data.invaders[i].items ELSE <<>>]
    ELSE <<>>

\* The names put in a Set as they are and trimmed afterwards.
InvaderNamesTrimmedLate(raw) == MapTrim(Spread(NewSet(raw)))

\* [...new Set(invadersRaw.map(inv => (...).toString().trim()))]
InvaderNames(raw) == Spread(NewSet(MapTrim(raw)))

\* fetchPlayerData(uid) with the given answer of the gallery: the value is
\* [rejected, value].  A failure of fetch or of response.json() is caught
\* and gives the fallback.
fetchPlayerData(uid, ans) ==
    IF ans.kind # "json"
    THEN [rejected |-> FALSE, value |-> [player |-> uid, invaders |-> <<>>]]
    ELSE [rejected |-> FALSE,
          value |-> [player |-> PlayerOf(ans.data, uid),
                     invaders |-> InvaderNames(RawNames(ans.data))]]

\* Before the call: a uid and an answer of the gallery.  The request fails,
\* the decoding fails, or the decoded value is null or an object with or
\* without a player name and with at most MaxInvaders invaders.
InitFetch ==
    /\ EngineIdle
    /\ TableIdle
    /\ LoadIdle
    /\ RouterIdle
    /\ PlayersIdle
    /\ UiIdle
    /\ PairIdle
    /\ fetchPc = "call"
    /\ fetchResult = [player |-> <<>>, invaders |-> <<>>]
    /\ fetchUid \in FetchUidPool
    /\ \/ answer \in { [kind |-> "fetchRejects"], [kind |-> "jsonRejects"],
                      [kind |-> "json", data |-> [tag |-> "null"]] }
       \/ \E name \in PlayerNamePool : \E k \in 0..MaxInvaders :
          \E invs \in [1..k -> InvaderNamePool] :
             answer = [kind |-> "json",
                       data |-> [tag |-> "object", name |-> name,
                                 invaders |-> invs]]

\* The call fetchPlayerData(fetchUid) settles.
FetchPlayerData ==
    /\ fetchPc = "call"
    /\ LET out == fetchPlayerData(fetchUid, answer)
       IN  /\ fetchPc' = IF out.rejected THEN "rejected" ELSE "resolved"
           /\ fetchResult' = out.value
    /\ UNCHANGED <<fetchUid, answer, cmpVars, runVars, tableVars, loadVars,
                   routerVars, playersVars, uiVars,
                   pairVars>>

NextFetch == FetchPlayerData

SpecFetch == InitFetch /\ [][NextFetch]_vars

----------------------------------------------------------------------------
(* The uids router of the backend (routes/uids.ts), mounted at /api/uids.  *)
(* A request carries the user of its session, if it has one, and a body;   *)
(* a uid of the body is Undefined, a string, or a value of another type.   *)

UserIds == { "alice", "bob" }

\* req.user: the user of the session, "none" without an authenticated
\* session.
Sessions == { "none" } \cup UserIds

\* A body value that is neither a string nor an array.
NotAString == [tag |-> "number", items |-> <<>>]

\* The uid of a body or of the path: missing, 7, "u1", " u2 ".
UidInputs ==
    { Undefined, NotAString, Str(<<117, 49>>), Str(<<32, 117, 50, 32>>) }

\* The uids of the body of PUT /others-uids: missing, or an array.
UidArrayInputs ==
    { Undefined, Arr(<<>>),
      Arr(<< Str(<<32, 117, 50, 32>>), Str(<<32>>), NotAString >>) }

\* A middleware that calls next() for every request.
NeverChecked(req) == TRUE

\* req.isAuthenticated(): the request belongs to a session with a user.
isAuthenticated(req) == req.session # "none"

\* !uid || typeof uid !== 'string'
InvalidUid(uid) == uid.tag # "string" \/ uid.items = <<>>

\* GET /: the handler reads user.myUid, which throws without a user.
GetUids(has, doc) ==
    IF has THEN [status |-> 200, doc |-> doc, save |-> FALSE]
    ELSE [status |-> 500, doc |-> doc, save |-> FALSE]

\* PUT /my-uid
PutMyUid(has, doc, uid, saved) ==
    IF InvalidUid(uid) THEN [status |-> 400, doc |-> doc, save |-> FALSE]
    ELSE IF ~has \/ ~saved THEN [status |-> 500, doc |-> doc, save |-> FALSE]
    ELSE [status |-> 200, doc |-> [doc EXCEPT !.myUid = trim(uid.items)],
          save |-> TRUE]

\* uids.filter(uid => typeof uid === 'string' && uid.trim() !== '')
\*     .map(uid => uid.trim())
CleanUids(uidList) ==
    LET kept == SelectSeq(uidList, LAMBDA uid :
                    uid.tag = "string" /\ trim(uid.items) # <<>>)
    IN  [i \in DOMAIN kept |-> trim(kept[i].items)]

\* PUT /others-uids
PutOthersUids(has, doc, uidList, saved) ==
    IF uidList.tag # "array" THEN [status |-> 400, doc |-> doc, save |-> FALSE]
    ELSE IF ~has \/ ~saved THEN [status |-> 500, doc |-> doc, save |-> FALSE]
    ELSE [status |-> 200,
          doc |-> [doc EXCEPT !.othersUids = CleanUids(uidList.items)],
          save |-> TRUE]

\* POST /others-uids
PostOthersUids(has, doc, uid, saved) ==
    IF InvalidUid(uid) THEN [status |-> 400, doc |-> doc, save |-> FALSE]
    ELSE IF ~has THEN [status |-> 500, doc |-> doc, save |-> FALSE]
    ELSE IF SetHas(doc.othersUids, trim(uid.items))
    THEN [status |-> 200, doc |-> doc, save |-> FALSE]
    ELSE IF ~saved THEN [status |-> 500, doc |-> doc, save |-> FALSE]
    ELSE [status |-> 200,
          doc |-> [doc EXCEPT !.othersUids = Append(@, trim(uid.items))],
          save |-> TRUE]

\* DELETE /others-uids/:uid (the uid of the path is a string)
DeleteOthersUids(has, doc, uid, saved) ==
    IF ~has \/ ~saved THEN [status |-> 500, doc |-> doc, save |-> FALSE]
    ELSE [status |-> 200,
          doc |-> [doc EXCEPT !.othersUids =
                      SelectSeq(@, LAMBDA u : u # uid.items)],
          save |-> TRUE]

\* A user as the model User creates it.
NewUser == [myUid |-> <<>>, othersUids |-> <<>>]

\* The document passport loads for the session of the request.
DocOf(session) == IF session \in UserIds THEN users[session] ELSE NewUser

\* The router serves req: the middleware answers 401, or calls next() and
\* the handler answers with out, saving the document if it says so.
Serve(req, out) ==
    /\ request' = req
    /\ IF isAuthenticated(req)
       THEN /\ response' = [status |-> out.status]
            /\ users' = IF out.save /\ req.session \in UserIds
                        THEN [users EXCEPT ![req.session] = out.doc]
                        ELSE users
       ELSE /\ response' = [status |-> 401]
            /\ users' = users
    /\ UNCHANGED <<cmpVars, runVars, tableVars, loadVars, fetchVars,
                   playersVars, uiVars,
                   pairVars>>

InitUids ==
    /\ EngineIdle
    /\ TableIdle
    /\ LoadIdle
    /\ FetchIdle
    /\ PlayersIdle
    /\ UiIdle
    /\ PairIdle
    /\ users = [id \in UserIds |-> NewUser]
    /\ request = [route |-> "none", session |-> "none"]
    /\ response = [status |-> 0]

GetUidsRoute(session) ==
    Serve([route |-> "GET /", session |-> session],
          GetUids(session \in UserIds, DocOf(session)))

PutMyUidRoute(session, uid, saved) ==
    Serve([route |-> "PUT /my-uid", session |-> session],
          PutMyUid(session \in UserIds, DocOf(session), uid, saved))

PutOthersUidsRoute(session, uidList, saved) ==
    Serve([route |-> "PUT /others-uids", session |-> session],
          PutOthersUids(session \in UserIds, DocOf(session), uidList, saved))

PostOthersUidsRoute(session, uid, saved) ==
    Serve([route |-> "POST /others-uids", session |-> session],
          PostOthersUids(session \in UserIds, DocOf(session), uid, saved))

DeleteOthersUidsRoute(session, uid, saved) ==
    Serve([route |-> "DELETE /others-uids/:uid", session |-> session],
          DeleteOthersUids(session \in UserIds, DocOf(session), uid, saved))

NextUids ==
    \E session \in Sessions, saved \in BOOLEAN :
        \/ GetUidsRoute(session)
        \/ \E uid \in UidInputs : PutMyUidRoute(session, uid, saved)
        \/ \E uidList \in UidArrayInputs :
              PutOthersUidsRoute(session, uidList, saved)
        \/ \E uid \in UidInputs : PostOthersUidsRoute(session, uid, saved)
        \/ \E uid \in { u \in UidInputs : u.tag = "string" /\ u.items # <<>> } :
              DeleteOthersUidsRoute(session, uid, saved)

SpecUids == InitUids /\ [][NextUids]_vars

----------------------------------------------------------------------------
(* fetchPlayers (api/players.ts): the uids of the account, read from       *)
(* /api/uids.  A uid of the decoded response is a string, Null or          *)
(* Undefined; othersUids is an array of such values.                       *)

\* At most MaxOthers entries in the othersUids of the response.
MaxOthers == 2

\* A uid of the response: missing, null, "", "A", "B", "C".
UidValues ==
    { Undefined, Null, Str(<<>>), Str(<<65>>), Str(<<66>>), Str(<<67>>) }

\* Boolean(value) for a string, null or undefined.
Truthy(value) == value.tag = "string" /\ value.items # <<>>

\* Every value of the list is kept, the falsy ones too.
Unfiltered(values) == values

\* values.filter(Boolean)
FilterBoolean(values) == SelectSeq(values, Truthy)

\* allUids.map(value => ({ value }))
WrapValues(allUids) == [i \in DOMAIN allUids |-> [value |-> allUids[i].items]]

\* fetchPlayers() with the given answer of /api/uids: the value is
\* [rejected, value].  A failed request, a response that is not ok, a
\* failed decoding and a spread of a missing othersUids all throw inside
\* the try and give [].
fetchPlayers(ans) ==
    IF ans.kind # "json" \/ ans.data.othersUids.tag # "array"
    THEN [rejected |-> FALSE, value |-> <<>>]
    ELSE [rejected |-> FALSE,
          value |-> WrapValues(FilterBoolean(
                        <<ans.data.myUid>> \o ans.data.othersUids.items))]

\* Before the call: the request fails, the response is not ok, its
\* decoding fails, or it decodes to what the router sends: a myUid and an
\* array othersUids of at most MaxOthers values.
InitPlayers ==
    /\ EngineIdle
    /\ TableIdle
    /\ LoadIdle
    /\ FetchIdle
    /\ RouterIdle
    /\ UiIdle
    /\ PairIdle
    /\ playersPc = "call"
    /\ playersList = <<>>
    /\ \/ uidsAnswer \in { [kind |-> "fetchRejects"], [kind |-> "notOk"],
                          [kind |-> "jsonRejects"] }
       \/ \E mine \in UidValues : \E k \in 0..MaxOthers :
          \E theirs \in [1..k -> UidValues] :
             uidsAnswer = [kind |-> "json",
                           data |-> [myUid |-> mine, othersUids |-> Arr(theirs)]]

\* The call fetchPlayers() settles.
FetchPlayers ==
    /\ playersPc = "call"
    /\ LET out == fetchPlayers(uidsAnswer)
       IN  /\ playersPc' = IF out.rejected THEN "rejected" ELSE "resolved"
           /\ playersList' = out.value
    /\ UNCHANGED <<uidsAnswer, cmpVars, runVars, tableVars, loadVars,
                   fetchVars, routerVars, uiVars,
                   pairVars>>

NextPlayers == FetchPlayers

SpecPlayers == InitPlayers /\ [][NextPlayers]_vars

----------------------------------------------------------------------------
(* The App component (App.tsx, AppContext.tsx, App.vue) with the filter    *)
(* panel and its two dropdowns: the check of the session at the mount,     *)
(* the settings, the logout, the messages and the selection of players.    *)
(* The timers of the messages all wait the same time, so they fire in the  *)
(* order in which they were started: the timer that fires is the oldest.   *)

\* At most MaxTimers message timers wait at once.
MaxTimers == 2

\* What /api/uids answers for the account: myUid "A" with the others "B"
\* and "C", no myUid with the other "B", or a failed request.
AccountAnswers ==
    { [kind |-> "json",
       data |-> [myUid |-> Str(<<65>>),
                 othersUids |-> Arr(<< Str(<<66>>), Str(<<67>>) >>)]],
      [kind |-> "json",
       data |-> [myUid |-> Str(<<>>), othersUids |-> Arr(<< Str(<<66>>) >>)]],
      [kind |-> "fetchRejects"] }

\* What the gallery answers for a uid: a player named "P" and the uid, with
\* no invaders.
GalleryAnswerOf(uid) ==
    [kind |-> "json",
     data |-> [tag |-> "object", name |-> Str(<<80>> \o uid), invaders |-> <<>>]]

\* loadPlayers: the uids fetchPlayers gives, and for each the player data
\* fetchPlayerData gives.
LoadPlayers(ans) ==
    LET playersData == fetchPlayers(ans).value
        uidsArray   == [i \in DOMAIN playersData |-> playersData[i].value]
    IN  [uids |-> uidsArray,
         playersMap |-> [uid \in { uidsArray[i] : i \in DOMAIN uidsArray } |->
                            fetchPlayerData(uid, GalleryAnswerOf(uid)).value]]

\* showMessage(text, type): the message is shown and a timer is started
\* that will empty it.
ShowMessage(text, type) ==
    /\ message' = text
    /\ messageType' = type
    /\ timers' = timers + 1

\* firstOptions and secondOptions: the values offered by a dropdown.
Options(which) ==
    IF which = "first" THEN uids
    ELSE SelectSeq(uids, LAMBDA uid : uid # selectedFirst)

\* A second dropdown that is never disabled.
NeverDisabled(which, first) == FALSE

\* The disabled prop of a dropdown: disabled={!selectedFirst} on the
\* second one.
Disabled(which, first) == which = "second" /\ first = <<>>

\* The second selection kept when the reference player changes.
SecondsKept(seconds) == seconds

\* onSecondsChange([]) in handleFirstChange.
SecondsAfterFirstChange(seconds) == <<>>

\* selectOption in a dropdown with multiple: the value is added at the end,
\* or removed.
Toggled(values, value) ==
    IF SetHas(values, value)
    THEN SelectSeq(values, LAMBDA v : v # value)
    ELSE Append(values, value)

InitApp ==
    /\ EngineIdle
    /\ TableIdle
    /\ LoadIdle
    /\ FetchIdle
    /\ RouterIdle
    /\ PlayersIdle
    /\ UiIdle
    /\ PairIdle

\* The effect of the mount: checkAuth asks for the status of the session
\* and, with a session, loads the uids and the players.
CheckAuth(status, ans) ==
    /\ ~mounted
    /\ mounted' = TRUE
    /\ IF status = "authenticated"
       THEN /\ authenticated' = TRUE
            /\ user' = "alice"
            /\ IF ans.kind = "json"
               THEN /\ myUid' = ans.data.myUid.items
                    /\ othersUids' = [i \in DOMAIN ans.data.othersUids.items |->
                                         ans.data.othersUids.items[i].items]
                    /\ UNCHANGED messageVars
               ELSE /\ ShowMessage("Failed to load UIDs", "error")
                    /\ UNCHANGED <<myUid, othersUids>>
            /\ uids' = LoadPlayers(ans).uids
            /\ playersMap' = LoadPlayers(ans).playersMap
       ELSE UNCHANGED <<authenticated, user, myUid, othersUids, dataVars,
                        messageVars>>
    /\ UNCHANGED <<showSettings, selectionVars, isOpen, cmpVars, runVars,
                   tableVars, loadVars, fetchVars, routerVars, playersVars,
                   pairVars>>

\* The Settings button of the user menu.
ToggleSettings ==
    /\ authenticated
    /\ showSettings' = ~showSettings
    /\ UNCHANGED <<authenticated, user, myUid, othersUids, dataVars,
                   selectionVars, messageVars, mounted, isOpen, cmpVars,
                   runVars, tableVars, loadVars, fetchVars, routerVars,
                   playersVars, pairVars>>

\* The Logout button: the request to /api/auth/logout is answered, or
\* fetch throws.
Logout(outcome) ==
    /\ authenticated
    /\ IF outcome = "answered"
       THEN /\ authenticated' = FALSE
            /\ user' = "null"
            /\ myUid' = <<>>
            /\ othersUids' = <<>>
            /\ showSettings' = FALSE
            /\ UNCHANGED messageVars
       ELSE /\ timers < MaxTimers
            /\ ShowMessage("Logout failed", "error")
            /\ UNCHANGED sessionVars
    /\ UNCHANGED <<dataVars, selectionVars, mounted, isOpen, cmpVars, runVars,
                   tableVars, loadVars, fetchVars, routerVars, playersVars,
                   pairVars>>

\* The Update button of the settings: the answer is ok and the players are
\* loaded again, or it is not.
UpdateMyUid(ok, ans) ==
    /\ authenticated
    /\ showSettings
    /\ timers < MaxTimers
    /\ IF ok
       THEN /\ ShowMessage("UID updated successfully", "success")
            /\ uids' = LoadPlayers(ans).uids
            /\ playersMap' = LoadPlayers(ans).playersMap
       ELSE /\ ShowMessage("Failed to update UID", "error")
            /\ UNCHANGED dataVars
    /\ UNCHANGED <<sessionVars, selectionVars, mounted, isOpen, cmpVars,
                   runVars, tableVars, loadVars, fetchVars, routerVars,
                   playersVars, pairVars>>

\* The oldest message timer fires: setMessage('').
TimerFires ==
    /\ timers > 0
    /\ message' = ""
    /\ timers' = timers - 1
    /\ UNCHANGED <<messageType, sessionVars, dataVars, selectionVars, mounted,
                   isOpen, cmpVars, runVars, tableVars, loadVars, fetchVars,
                   routerVars, playersVars, pairVars>>

\* The button of a dropdown is pressed: toggleDropdown, and the other
\* dropdown, for which the press is outside, closes.
ToggleDropdown(which) ==
    /\ ~Disabled(which, selectedFirst)
    /\ isOpen' = [w \in { "first", "second" } |->
                     IF w = which THEN ~isOpen[which] ELSE FALSE]
    /\ UNCHANGED <<sessionVars, dataVars, selectionVars, messageVars, mounted,
                   cmpVars, runVars, tableVars, loadVars, fetchVars,
                   routerVars, playersVars, pairVars>>

\* A press outside both dropdowns.
ClickOutside ==
    /\ isOpen' = [first |-> FALSE, second |-> FALSE]
    /\ UNCHANGED <<sessionVars, dataVars, selectionVars, messageVars, mounted,
                   cmpVars, runVars, tableVars, loadVars, fetchVars,
                   routerVars, playersVars, pairVars>>

\* An option of the open first dropdown is chosen: selectOption emits the
\* value and closes, and the panel sets the reference player and resets
\* the second selection.
SelectReference(value) ==
    /\ isOpen.first
    /\ SetHas(Options("first"), value)
    /\ selectedFirst' = value
    /\ selectedSeconds' = SecondsAfterFirstChange(selectedSeconds)
    /\ isOpen' = [isOpen EXCEPT !.first = FALSE]
    /\ UNCHANGED <<sessionVars, dataVars, messageVars, mounted, cmpVars,
                   runVars, tableVars, loadVars, fetchVars, routerVars,
                   playersVars, pairVars>>

\* An option of the open second dropdown is chosen: selectOption emits the
\* selection with the value added or removed.
SelectCompared(value) ==
    /\ isOpen.second
    /\ SetHas(Options("second"), value)
    /\ selectedSeconds' = Toggled(selectedSeconds, value)
    /\ UNCHANGED <<selectedFirst, isOpen, sessionVars, dataVars, messageVars,
                   mounted, cmpVars, runVars, tableVars, loadVars, fetchVars,
                   routerVars, playersVars, pairVars>>

NextApp ==
    \/ \E status \in { "authenticated", "anonymous" }, ans \in AccountAnswers :
          CheckAuth(status, ans)
    \/ ToggleSettings
    \/ \E outcome \in { "answered", "throws" } : Logout(outcome)
    \/ \E ok \in BOOLEAN, ans \in AccountAnswers : UpdateMyUid(ok, ans)
    \/ TimerFires
    \/ \E which \in { "first", "second" } : ToggleDropdown(which)
    \/ ClickOutside
    \/ \E value \in { <<65>>, <<66>>, <<67>> } : SelectReference(value)
    \/ \E value \in { <<65>>, <<66>>, <<67>> } : SelectCompared(value)

SpecApp == InitApp /\ [][NextApp]_vars

----------------------------------------------------------------------------
(* Properties of the engine.                                               *)

\* The set of the elements of an array.
Elems(a) == { a[i] : i \in DOMAIN a }

\* The trimmed elements of an array.
Trimmed(a) == { trim(a[i]) : i \in DOMAIN a }

\* The names of the mapping that was passed, and the list passed for a name
\* (empty for null and undefined).
PassedNames == DOMAIN passed.others

PassedItems(name) == passed.others[name].items

\* The value is an array of strictly ascending strings.
StrictlyAscending(a) ==
    \A i \in 1..(Len(a) - 1) : StrLess(a[i], a[i + 1])

\* v is the array holding, in ascending order and once each, the trimmed
\* items of invList that are not trimmed items of refList.
IsExclusiveList(v, refList, invList) ==
    /\ v.tag = "array"
    /\ Elems(v.items) = Trimmed(invList) \ Trimmed(refList)
    /\ StrictlyAscending(v.items)

\* C1: for every name of others, the elements of the returned list are
\* exactly the trimmed items of others[name] that equal no trimmed item of
\* the reference list (equality of strings, case-sensitive).
C1_ExactDifference ==
    pc = "returned" =>
        \A name \in PassedNames :
            LET got == GetProperty(result, name)
            IN  /\ got.tag = "array"
                /\ Elems(got.items) =
                      Trimmed(PassedItems(name)) \ Trimmed(passed.reference)

\* C1 witness: a call has returned where an item of a player equals a
\* reference item only after trimming, another differs from a reference
\* item only by case, and the returned list keeps the second and not the
\* first.
C1_Witness ==
    /\ pc = "returned"
    /\ \E name \in PassedNames :
          /\ passed.others[name].tag = "array"
          /\ \E i, j \in DOMAIN PassedItems(name) :
                /\ PassedItems(name)[i] \notin Elems(passed.reference)
                /\ trim(PassedItems(name)[i]) \in Trimmed(passed.reference)
                /\ trim(PassedItems(name)[j]) = <<97>>
                /\ <<65>> \in Trimmed(passed.reference)
                /\ Elems(GetProperty(result, name).items) = { <<97>> }

\* C2 (as claimed): the object returned has exactly the keys of others.
C2_SameKeys ==
    pc = "returned" => ObjectKeys(result) = PassedNames

\* C2 holds of every mapping that has no own key "__proto__".
C2_SameKeysOrdinary ==
    (pc = "returned" /\ "__proto__" \notin PassedNames)
        => ObjectKeys(result) = PassedNames

\* C3: every returned list is sorted ascending:
\* result[name][i] <= result[name][i+1].
C3_SortedAscending ==
    pc = "returned" =>
        \A name \in PassedNames :
            LET got == GetProperty(result, name).items
            IN  \A i \in 1..(Len(got) - 1) : StrLeq(got[i], got[i + 1])

\* C3 witness: a call has returned a list of two or more items for a player
\* whose trimmed items were not in ascending order.
C3_Witness ==
    /\ pc = "returned"
    /\ \E name \in PassedNames :
          /\ Len(GetProperty(result, name).items) >= 2
          /\ \E i \in 1..(Len(PassedItems(name)) - 1) :
                StrLess(trim(PassedItems(name)[i + 1]),
                        trim(PassedItems(name)[i]))

\* C4: no returned list holds two equal elements.
C4_NoDuplicates ==
    pc = "returned" =>
        \A name \in PassedNames :
            LET got == GetProperty(result, name).items
            IN  \A i, j \in DOMAIN got : i # j => got[i] # got[j]

\* C4 witness: a call has returned a non-empty list for a player whose list
\* holds the same item twice and two items that differ only by surrounding
\* white space, none of them in the reference list.
C4_Witness ==
    /\ pc = "returned"
    /\ \E name \in PassedNames :
          LET inv == PassedItems(name)
          IN  /\ GetProperty(result, name).items # <<>>
              /\ \E i, j, k \in DOMAIN inv :
                    /\ i # j /\ j # k /\ i # k
                    /\ inv[i] = inv[j]
                    /\ inv[i] # inv[k]
                    /\ trim(inv[i]) = trim(inv[k])
                    /\ trim(inv[i]) \notin Trimmed(passed.reference)

\* C5: a call on a mapping with a null or undefined entry returns, the
\* entry of that name is the empty list, and every other name has the list
\* it is due.
C5_MissingIsEmpty ==
    (pc # "call" /\ \E name \in PassedNames : passed.others[name].tag # "array")
        => /\ pc = "returned"
           /\ \A name \in PassedNames :
                 IF passed.others[name].tag # "array"
                 THEN GetProperty(result, name) = Arr(<<>>)
                 ELSE IsExclusiveList(GetProperty(result, name),
                                      passed.reference, PassedItems(name))

\* C5 witness: a call has returned for a mapping with a null entry next to
\* a player with a non-empty result.
C5_Witness ==
    /\ pc = "returned"
    /\ \E name, m \in PassedNames :
          /\ passed.others[name] = Null
          /\ passed.others[m].tag = "array"
          /\ GetProperty(result, m).items # <<>>

\* C6: the call never throws, whatever the reference list and the mapping.
C6_NeverThrows == pc # "threw"

\* C6 witness: a call has returned for a reference list with a blank item
\* twice and a mapping with an undefined entry.
C6_Witness ==
    /\ pc = "returned"
    /\ \E i, j \in DOMAIN passed.reference :
          /\ i # j
          /\ passed.reference[i] = <<32>>
          /\ passed.reference[j] = <<32>>
    /\ \E name \in PassedNames : passed.others[name] = Undefined

\* The mapping with every item trimmed.
StripAll(oth) ==
    [k \in DOMAIN oth |->
        IF oth[k].tag = "array" THEN Arr(MapTrim(oth[k].items)) ELSE oth[k]]

\* C7: the result for inputs with surrounding white space is the result
\* for the same inputs trimmed.
C7_WhitespaceInvariant ==
    pc # "call" =>
        \A keys \in KeyOrders(passed.others) :
            LET plain == compareInvaders(MapTrim(passed.reference),
                                         StripAll(passed.others), keys)
            IN  /\ (pc = "threw") = plain.threw
                /\ result = plain.result

\* C7 witness: a call has returned a non-empty list for inputs in which a
\* reference item and an item of a player carry surrounding white space
\* and are equal once trimmed.
C7_Witness ==
    /\ pc = "returned"
    /\ MapTrim(passed.reference) # passed.reference
    /\ \E name \in PassedNames :
          /\ passed.others[name].tag = "array"
          /\ MapTrim(PassedItems(name)) # PassedItems(name)
          /\ GetProperty(result, name).items # <<>>
          /\ Trimmed(PassedItems(name)) \cap Trimmed(passed.reference) # {}

\* C8: the call leaves the reference list and the others mapping (its keys
\* and each of its lists, element by element) as they were passed.
C8_InputsUnchanged ==
    pc # "call" => /\ referenceInvaders = passed.reference
                   /\ others = passed.others

\* C8 witness: a call has returned a list that differs from the list it was
\* computed from, which was neither sorted nor trimmed nor free of
\* duplicates.
C8_Witness ==
    /\ pc = "returned"
    /\ \E name \in PassedNames :
          LET inv == PassedItems(name)
          IN  /\ Len(inv) >= 3
              /\ ArraySort(inv) # inv
              /\ MapTrim(inv) # inv
              /\ GetProperty(result, name).items # <<>>
              /\ \E i, j \in DOMAIN inv : i # j /\ inv[i] = inv[j]

\* C9: an invocation that has returned has returned what the first
\* invocation on equal arguments returned, whatever the order of the keys,
\* the invocations made before it and the invocations under way beside it;
\* so two invocations on equal arguments return equal mappings.
C9_FunctionOfArguments ==
    /\ \A i \in Slots :
          invocations[i].pc = "returned" =>
              /\ invocations[i].args \in DOMAIN seen
              /\ invocations[i].result = seen[invocations[i].args]
    /\ \A i, j \in Slots :
          (/\ invocations[i].pc = "returned"
           /\ invocations[j].pc = "returned"
           /\ invocations[i].args = invocations[j].args)
              => invocations[i].result = invocations[j].result

\* C9 witness: two invocations on the same arguments have returned the
\* same non-empty lists although they took the keys in different orders,
\* steps of another invocation fell between the steps of one of them, and
\* an invocation on other arguments had returned before.
C9_Witness ==
    \E i, j \in Slots :
        LET me == invocations[i]
            it == invocations[j]
        IN  /\ me.pc = "returned"
            /\ it.pc = "returned"
            /\ me.args = it.args
            /\ me.order # it.order
            /\ me.overlapped
            /\ Cardinality(DOMAIN seen) >= 2
            /\ \E name \in DOMAIN me.result.own : me.result.own[name] # <<>>

\* The lowercase form of item holds the lowercase form of term at some
\* position.
ContainsIgnoringCase(item, term) ==
    \E k \in 0..(Len(item) - Len(term)) :
        \A j \in 1..Len(term) :
            toLowerCase(item)[k + j] = toLowerCase(term)[j]

\* C10: with a non-empty search term, filteredRows has the keys of rows and
\* filteredRows[name] holds exactly the items of rows[name] whose lowercase
\* form contains the lowercase term, in their order; with the empty term
\* filteredRows is rows.
C10_FilterBySubstring ==
    IF search = <<>>
    THEN filteredRows = rows
    ELSE /\ ObjectKeys(filteredRows) = ObjectKeys(rows)
         /\ \A name \in ObjectKeys(rows) :
               filteredRows.own[name] =
                  SelectSeq(rows.own[name],
                            LAMBDA item : ContainsIgnoringCase(item, search))

\* C10 witness: with a term in upper case, a list of two items of which the
\* filter keeps one, written in lower case, and drops the other.
C10_Witness ==
    /\ search = <<65, 66>>
    /\ \E name \in ObjectKeys(rows) :
          /\ Len(rows.own[name]) = 2
          /\ filteredRows.own[name] = << <<97, 98>> >>

----------------------------------------------------------------------------
(* Properties of the DataTable's load effect.                              *)

\* a can be obtained from b by leaving elements out.
RECURSIVE IsSubsequence(_, _)
IsSubsequence(a, b) ==
    IF a = <<>> THEN TRUE
    ELSE IF b = <<>> THEN FALSE
    ELSE IF Head(a) = Head(b) THEN IsSubsequence(Tail(a), Tail(b))
    ELSE IsSubsequence(a, Tail(b))

\* filteredRows has the keys of rows, and each of its lists is a
\* subsequence of the list of rows and strictly ascending.
FilteredWithinRows ==
    /\ ObjectKeys(filteredRows) = ObjectKeys(rows)
    /\ \A name \in ObjectKeys(rows) :
          /\ IsSubsequence(filteredRows.own[name], rows.own[name])
          /\ StrictlyAscending(filteredRows.own[name])

\* A step that changes the search term leaves rows and columnHeaders as
\* they are, starts no load, requests nothing from the gallery and invokes
\* no comparison.
SearchChangesNothingElse ==
    search' # search =>
        UNCHANGED <<rows, columnHeaders, loads, fetchCount, engineCall,
                    cache, error, loading>>

\* C11: the search filter is applied to the output of the comparison only:
\* a change of the search term never changes rows or columnHeaders and
\* triggers no comparison and no fetch; filteredRows keeps the player keys
\* of rows, and each filtered list is a subsequence of the list of rows and
\* stays sorted ascending.
C11_SearchFiltersOutputOnly ==
    /\ []FilteredWithinRows
    /\ [][SearchChangesNothingElse]_vars

\* C11 witness: with the search term "B" and no load under way, the rows
\* of the last load hold a list of two items of which filteredRows keeps
\* the second one only.
C11_Witness ==
    /\ search = <<66>>
    /\ loads = <<>>
    /\ \E name \in ObjectKeys(rows) :
          /\ Len(rows.own[name]) = 2
          /\ filteredRows.own[name] = << rows.own[name][2] >>

\* The uids of the second filters of the last invocation of the engine.
CallTargets == { engineCall.seconds[i] : i \in DOMAIN engineCall.seconds }

\* C13: whenever the load effect invokes compareInvaders for a selection,
\* the reference player and every uid of secondFilters have an entry in the
\* cache, and the others mapping passed to the engine holds the collection
\* of every selected target.
C13_AllTargetsPassed ==
    engineCall # <<>> =>
        /\ {engineCall.first} \cup CallTargets \subseteq engineCall.resolved
        /\ engineCall.held = CallTargets

\* The part of C13 the code keeps: at every invocation every selected uid
\* has an entry in the cache, and in Vue, which reads the cache itself, the
\* mapping holds every target.
C13_ResolvedAndHeldInVue ==
    engineCall # <<>> =>
        /\ {engineCall.first} \cup CallTargets \subseteq engineCall.resolved
        /\ framework = "vue" => engineCall.held = CallTargets

\* C15: over any sequence of filter changes, also changes made while
\* earlier loads are under way, each uid is requested from the gallery at
\* most once.
C15_FetchedAtMostOnce == \A uid \in Uids : fetchCount[uid] <= 1

\* The part of C15 the code keeps: a uid is requested only by a load that
\* finds no entry for it, so with no load under way every uid that was
\* requested has an entry.
C15_RequestedIsCachedAtRest ==
    loads = <<>> => \A uid \in Uids : fetchCount[uid] > 0 => Cached(cache, uid)

----------------------------------------------------------------------------
(* Properties of fetchPlayerData.                                          *)

\* The names of the invaders of the answer, a missing name read as "".
AnswerNames ==
    { IF answer.data.invaders[i].tag = "string"
      THEN answer.data.invaders[i].items ELSE <<>> :
        i \in DOMAIN answer.data.invaders }

\* C12: fetchPlayerData never rejects; when the request or the decoding
\* fails it resolves to { player: uid, invaders: [] }; when they succeed,
\* player is the player name of the gallery, or uid when there is none, and
\* invaders holds the trimmed names of the invaders, each of them once.
C12_FetchNeverRejects ==
    /\ fetchPc # "rejected"
    /\ fetchPc = "resolved" =>
          IF answer.kind # "json"
          THEN fetchResult = [player |-> fetchUid, invaders |-> <<>>]
          ELSE IF answer.data.tag = "null"
          THEN fetchResult = [player |-> fetchUid, invaders |-> <<>>]
          ELSE /\ fetchResult.player =
                     IF answer.data.name \in { Undefined, Str(<<>>) }
                     THEN fetchUid ELSE answer.data.name.items
               /\ Elems(fetchResult.invaders) = { trim(n) : n \in AnswerNames }
               /\ \A i, j \in DOMAIN fetchResult.invaders :
                     i # j => fetchResult.invaders[i] # fetchResult.invaders[j]

\* C12 witness: the gallery answered with a player name and with three
\* invaders, two of them named alike up to white space, and the call
\* resolved with two names.
C12_Witness ==
    /\ fetchPc = "resolved"
    /\ answer.kind = "json"
    /\ answer.data.tag = "object"
    /\ answer.data.name = Str(<<65>>)
    /\ Len(answer.data.invaders) = 3
    /\ Str(<<65>>) \in Elems(answer.data.invaders)
    /\ Str(<<9, 65, 32>>) \in Elems(answer.data.invaders)
    /\ Len(fetchResult.invaders) = 2

----------------------------------------------------------------------------
(* Properties of the uids router.                                          *)

\* A step that serves a request without an authenticated session answers
\* 401 and leaves the stored uids of every user as they are.
UnauthenticatedIsRefused ==
    (request' # request \/ response' # response \/ users' # users) =>
        (request'.session = "none" =>
            /\ response'.status = 401
            /\ users' = users)

\* C14: uid management requires authentication: a request to GET /,
\* PUT /my-uid, PUT /others-uids, POST /others-uids or
\* DELETE /others-uids/:uid made without an authenticated session is
\* answered 401 and changes no user's myUid or othersUids.
C14_UidsRequireAuthentication ==
    /\ [](request.session = "none" /\ request.route # "none" =>
             response.status = 401)
    /\ [][UnauthenticatedIsRefused]_vars

\* C14 witness: a DELETE without a session was answered 401 while a user
\* has a uid stored in both fields.
C14_Witness ==
    /\ request = [route |-> "DELETE /others-uids/:uid", session |-> "none"]
    /\ response.status = 401
    /\ \E id \in UserIds :
          /\ users[id].myUid # <<>>
          /\ users[id].othersUids # <<>>

----------------------------------------------------------------------------
(* Properties of the App component and of the filter panel.                *)

\* A step that changes the reference player empties the second selection.
ReferenceChangeResets ==
    selectedFirst' # selectedFirst => selectedSeconds' = <<>>

\* C16: changing the reference player resets the selection of compared
\* players to the empty list, and after any sequence of interactions with
\* the filter panel the reference uid is not among the compared uids.
C16_ReferenceNotCompared ==
    /\ [](~SetHas(selectedSeconds, selectedFirst))
    /\ [][ReferenceChangeResets]_vars

\* C16 witness: with "B" and "C" offered next to the reference player "A",
\* both are selected as compared players and the first dropdown is open,
\* offering to change the reference player to one of them.
C16_Witness ==
    /\ selectedFirst = <<65>>
    /\ selectedSeconds = << <<67>>, <<66>> >>
    /\ isOpen.first

\* C17: the second dropdown is disabled as long as no reference player is
\* selected; a disabled dropdown is never open and emits no change, so a
\* non-empty selection of compared players implies a reference player.
C17_ComparedImpliesReference ==
    /\ selectedFirst = <<>> => ~isOpen.second
    /\ selectedSeconds # <<>> => selectedFirst # <<>>

\* C17 witness: the second dropdown is open with a reference player
\* selected, and a compared player has been chosen in it.
C17_Witness ==
    /\ isOpen.second
    /\ selectedFirst # <<>>
    /\ selectedSeconds # <<>>

\* A step in which the logout completes: the session ends.
LogoutCompletes == authenticated /\ ~authenticated'

\* C18: after a logout that completes without an exception every state of
\* the application has its initial value: authenticated is false, user is
\* null, myUid and othersUids are empty, the loaded uids and playersMap
\* are empty, the selections are empty and the settings panel is closed.
C18_LogoutResetsEverything ==
    [][LogoutCompletes =>
          /\ user' = "null"
          /\ myUid' = <<>>
          /\ othersUids' = <<>>
          /\ showSettings' = FALSE
          /\ uids' = <<>>
          /\ playersMap' = <<>>
          /\ selectedFirst' = <<>>
          /\ selectedSeconds' = <<>>]_vars

\* The part of C18 the code keeps: the logout resets the states of the
\* session and closes the settings panel.
C18_LogoutResetsSession ==
    [][LogoutCompletes =>
          /\ user' = "null"
          /\ myUid' = <<>>
          /\ othersUids' = <<>>
          /\ showSettings' = FALSE]_vars

\* C19: a message stays visible until the timer started by the call of
\* showMessage that displayed it fires: while that timer, the youngest
\* one, has not fired, the message is shown.
C19_VisibleUntilOwnTimer == timers > 0 => message # ""

\* The part of C19 the code keeps: a message is shown only while a timer
\* waits that will empty it, so every message shown is emptied when the
\* timers have fired.
C19_ShownMessageHasTimer == message # "" => timers > 0

----------------------------------------------------------------------------
(* Properties of fetchPlayers.                                             *)

\* The values of the answer in their stored order: myUid, then othersUids.
StoredUids == <<uidsAnswer.data.myUid>> \o uidsAnswer.data.othersUids.items

\* The positions of the stored values that are not falsy.
KeptPositions ==
    { i \in DOMAIN StoredUids :
        StoredUids[i] \notin { Undefined, Null, Str(<<>>) } }

\* C20: fetchPlayers returns myUid followed by othersUids in their stored
\* order, without the falsy entries, each wrapped as { value: uid }; when
\* the response is not ok or the request throws it returns the empty list
\* and does not reject.
C20_PlayersInStoredOrder ==
    /\ playersPc # "rejected"
    /\ playersPc = "resolved" =>
          IF uidsAnswer.kind # "json"
          THEN playersList = <<>>
          ELSE /\ Len(playersList) = Cardinality(KeptPositions)
               /\ \A i \in KeptPositions :
                     playersList[Cardinality({ j \in KeptPositions : j <= i })]
                        = [value |-> StoredUids[i].items]

\* C20 witness: the stored myUid is "B" and othersUids holds an empty
\* entry and then "A"; the list returned is B, A.
C20_Witness ==
    /\ playersPc = "resolved"
    /\ uidsAnswer.kind = "json"
    /\ uidsAnswer.data.myUid = Str(<<66>>)
    /\ uidsAnswer.data.othersUids = Arr(<< Str(<<>>), Str(<<65>>) >>)
    /\ playersList = << [value |-> <<66>>], [value |-> <<65>>] >>

----------------------------------------------------------------------------
(* Properties of the two DataTable components side by side.                *)

\* Neither component has a load under way.
BothAtRest == loads = <<>> /\ vueTable.loads = <<>>

\* C21: for the same changes of firstFilter and secondFilters and the same
\* gallery outcomes, from empty caches, the React and the Vue DataTable end
\* their loads with the same rows, columnHeaders and error: whenever
\* neither has a load under way they show the same.
C21_ReactShowsWhatVueShows ==
    BothAtRest =>
       /\ rows = vueTable.rows
       /\ columnHeaders = vueTable.columnHeaders
       /\ error = vueTable.error

\* The part of C21 the code keeps: whenever neither component has a load
\* under way their caches hold the same players.
C21_SameCacheAtRest == BothAtRest => cache = vueTable.cache

----------------------------------------------------------------------------
(* Properties of the loads of the DataTable and of what it displays.       *)

\* C22: ensurePlayer stores an entry for a uid on success and on failure
\* alike, so a load always finds the data of the reference player after
\* awaiting ensurePlayer: the error of the missing reference player is
\* never shown, on the first load of a uid or on a later one.
C22_ReferenceAlwaysFound == error # NoReferenceData

\* The part of C22 the code keeps: the Vue component never shows that
\* error.
C22_ReferenceFoundInVue == framework = "vue" => error # NoReferenceData

\* The table shows nothing.
ShowsNothing == rows = EmptyObject /\ columnHeaders = <<>>

\* The comparison shown was computed for the current filters.
ShownForCurrentFilters ==
    /\ engineCall # <<>>
    /\ engineCall.first = firstFilter
    /\ engineCall.seconds = secondFilters

\* C23: the comparison displayed belongs to the current selection: with no
\* load under way the table shows nothing when firstFilter or
\* secondFilters is empty, and what it shows was computed for the current
\* firstFilter and secondFilters; a load started for an earlier selection
\* that ends late does not overwrite the result of a later one.
C23_DisplayBelongsToSelection ==
    loads = <<>> =>
       IF firstFilter = "" \/ secondFilters = <<>>
       THEN ShowsNothing
       ELSE ShowsNothing \/ ShownForCurrentFilters

\* The part of C23 the code keeps: a change of the filters empties the
\* table, or shows at once the comparison for the new filters when all
\* their players are cached.
C23_ChangeResetsDisplay ==
    [][changes' # changes =>
          \/ ShowsNothing'
          \/ ShownForCurrentFilters']_vars

\* The columns shown are those of the load whose comparison is shown: one
\* per uid of its second filters, in their order, each with the exclusive
\* items of that player against the reference player, as the gallery gave
\* them or as the fallback has them.
OneColumnPerTarget ==
    LET seconds == engineCall.seconds
    IN  /\ Len(columnHeaders) = Len(seconds)
        /\ \A i \in DOMAIN seconds :
              /\ columnHeaders[i] \in DOMAIN rows.own
              /\ \E o1 \in FetchOutcomes, o2 \in FetchOutcomes :
                    IsExclusiveList(Arr(rows.own[columnHeaders[i]]),
                        PlayerDataOf(engineCall.first, o1).invaders,
                        PlayerDataOf(seconds[i], o2).invaders)

\* C24: every selected comparison target gets its own column: after a
\* load that ends without error columnHeaders has exactly one entry per
\* uid of secondFilters and rows maps each entry to that player's
\* exclusive items, also when two selected uids have the same display
\* name.
C24_OwnColumnPerTarget == columnHeaders # <<>> => OneColumnPerTarget

\* The part of C24 the code keeps: in the Vue component the targets have
\* their own columns when "B" and "C", the two uids with one display name,
\* are not selected together.
C24_OwnColumnPerName ==
    /\ framework = "vue"
    /\ columnHeaders # <<>>
    /\ ~(SetHas(engineCall.seconds, "B") /\ SetHas(engineCall.seconds, "C"))
    => OneColumnPerTarget

====
